---- MODULE Spec2Model ----
(***************************************************************************)
(* Model of marzban-smart-node: the two orchestrator scripts               *)
(*   smart_api_handler.py  ("api"  variant: login, certificate, register)  *)
(*   smart_curlscript.py   ("curl" variant: the same, then SSH bootstrap)  *)
(* Python values are modelled as strings; None is the string NONE.         *)
(***************************************************************************)
EXTENDS Integers, Sequences, FiniteSets, TLC

VARIABLES
    variant,      \* which script runs: "api" or "curl"
    in,           \* the run's inputs (argv / prompts)
    panel_coop,   \* TRUE: the panel accepts every well-formed request of this run
    checkout,     \* remote host: the Marzban-node directory exists
    fresh,        \* remote host had no checkout when the run started
    pc,           \* position of main: next stage, or "exited"
    token,        \* access token held by main
    cert_content, \* certificate held by main
    calls,        \* stages called so far, in order
    oks,          \* stages that returned success
    reqs,         \* HTTP requests that went out on the network, in order
    resp,         \* response to the last HTTP request (NoResp if none was sent)
    ret,          \* outcome of the last stage function
    stdout,       \* chunks written to standard output
    exit_code,    \* process exit code, -1 while running
    client,       \* paramiko client: "none", "new", "open", "closed"
    executed,     \* indexes of the bootstrap commands executed, in order
    statuses,     \* their exit statuses
    ssh_ret,      \* value returned by run_ssh_commands_on_node, NONE before
    ssh_fail,     \* why the bootstrap failed: "none", "auth", "conn", "cmd"
    ssh_log,      \* the except branch that logged the failure
    observed,     \* per failure kind, the values callers have been returned
    runs          \* number of runs started

vars == <<variant, in, panel_coop, checkout, fresh, pc, token, cert_content,
          calls, oks, reqs, resp, ret, stdout, exit_code, client, executed,
          statuses, ssh_ret, ssh_fail, ssh_log, observed, runs>>

run_vars == <<variant, in, panel_coop, fresh, runs>>
ssh_vars == <<client, executed, statuses, ssh_ret, ssh_fail, ssh_log, observed, checkout>>

\* ---------------------------------------------------------------- bounds
MaxRuns == 2

\* ---------------------------------------------------------------- constants
DEFAULT_SERVICE_PORT == 62050
DEFAULT_API_PORT == 62051
NumCommands == 9
RemoveStep == 3
CloneStep == 4

NONE == "<None>"
PyTrue == "True"
PyFalse == "False"

\* ---------------------------------------------------------------- Python values
\* A value of an f-string / comparison: its type and its str() rendering.
\* n is the number of an int and 0 otherwise.
PyS(s) == [ty |-> "str", s |-> s, n |-> 0]
PyB(b) == [ty |-> "bool", s |-> IF b THEN "True" ELSE "False", n |-> 0]
PyI(n) == [ty |-> "int", s |-> "", n |-> n]
Fmt(v) == v.s
PyEqStr(v, lit) == v.ty = "str" /\ v.s = lit

\* int(): an int is itself, a string of decimal digits parses, every other
\* string raises ValueError.
IntLiterals == {"22", "2222", "62050", "62051"}
\* Variant: no validation of the port text.
IntOk_Any(v) == TRUE
IntOk(v) == v.ty = "int" \/ (v.ty = "str" /\ v.s \in IntLiterals)

\* `not x` for the values main tests: None and "" are falsy.
Falsy(x) == x = NONE \/ x = "" \/ x = PyFalse

Returned(v) == [kind |-> "return", val |-> v]
Raised(e) == [kind |-> "raise", val |-> e]
NoRet == [kind |-> "none", val |-> NONE]

\* ---------------------------------------------------------------- HTTP
\* What requests does with a URL before any network I/O: a scheme other than
\* http/https has no connection adapter (InvalidSchema), a port that is not
\* a number does not parse (InvalidURL); both are RequestException.
UrlPorts == {"", "80", "443", "8000"}
UrlValid(url) == url.scheme \in {"http", "https"} /\ url.port \in UrlPorts

Statuses == {200, 201, 202, 204, 304, 401, 500}
Bodies == {"field", "empty", "nofield", "notjson"}
NetErr == [net |-> "err", status |-> 0, body |-> "none"]
NoResp == [net |-> "none", status |-> 0, body |-> "none"]
Responses == {NetErr} \cup [net : {"ok"}, status : Statuses, body : Bodies]

\* response.raise_for_status(): HTTPError for 4xx and 5xx.
RaiseForStatus(r) == r.status >= 400 /\ r.status < 600

PanelToken == "TOKEN"
PanelCert == "-----BEGIN CERT-----abc-----END CERT-----"
Protocol(https) == IF https THEN "https" ELSE "http"

\* The URL is the one the panel of this run listens on.
Reaches(url) ==
    /\ url.scheme = Protocol(in.https)
    /\ url.host = in.panel_domain
    /\ \/ url.port = in.panel_port
       \/ url.port = "" /\ in.panel_port = (IF in.https THEN "443" ELSE "80")

\* The answers the panel can give to a request that went out.
PanelAnswers(ep, url) ==
    IF panel_coop /\ Reaches(url)
    THEN IF ep = "register"
         THEN [net : {"ok"}, status : {200, 201}, body : {"field"}]
         ELSE {[net |-> "ok", status |-> 200, body |-> "field"]}
    ELSE Responses

\* ---------------------------------------------------------------- smart_api_handler.py
ApiUrl(panel_protocol, panel_domain, panel_port, path) ==
    [scheme |-> Fmt(panel_protocol),
     host |-> Fmt(panel_domain),
     port |-> IF \/ PyEqStr(panel_protocol, "http") /\ PyEqStr(panel_port, "80")
                 \/ PyEqStr(panel_protocol, "https") /\ PyEqStr(panel_port, "443")
              THEN "" ELSE Fmt(panel_port),
     path |-> path]

\* sent: the request went out; r: the response; json_caught: this requests
\* release raises JSONDecodeError as a RequestException.
get_token(sent, r, json_caught) ==
    IF ~sent \/ r.net = "err" \/ RaiseForStatus(r) THEN Returned(NONE)
    ELSE IF r.body = "notjson"
         THEN IF json_caught THEN Returned(NONE) ELSE Raised("JSONDecodeError")
    ELSE IF r.body = "nofield" THEN Returned(NONE)
    ELSE IF r.body = "empty" THEN Returned("")
    ELSE Returned(PanelToken)

get_client_cert(sent, r, json_caught) ==
    IF ~sent \/ r.net = "err" \/ RaiseForStatus(r) THEN Returned(NONE)
    ELSE IF r.body = "notjson"
         THEN IF json_caught THEN Returned(NONE) ELSE Raised("JSONDecodeError")
    ELSE IF r.body = "nofield" THEN Returned(NONE)
    ELSE IF r.body = "empty" THEN Returned("")
    ELSE Returned(PanelCert)

\* int(service_port), int(api_port) run while the payload is built, before
\* the try block and the request.
api_add_node_to_panel(service_port, api_port, sent, r, json_caught) ==
    IF ~(IntOk(service_port) /\ IntOk(api_port)) THEN Raised("ValueError")
    ELSE IF ~sent \/ r.net = "err" \/ RaiseForStatus(r) THEN Returned(PyFalse)
    ELSE IF r.body = "notjson"
         THEN IF json_caught THEN Returned(PyFalse) ELSE Raised("JSONDecodeError")
    ELSE IF r.status \in {200, 201} THEN Returned(PyTrue)
    ELSE Returned(PyFalse)

\* ---------------------------------------------------------------- smart_curlscript.py
CurlUrl(domain, port, https, path) ==
    [scheme |-> IF https THEN "https" ELSE "http",
     host |-> domain,
     port |-> port,
     path |-> path]

get_access_token(sent, r, json_caught) ==
    IF ~sent \/ r.net = "err" \/ RaiseForStatus(r) THEN Returned(NONE)
    ELSE IF r.body = "notjson"
         THEN IF json_caught THEN Returned(NONE) ELSE Raised("JSONDecodeError")
    ELSE IF r.body = "nofield" THEN Raised("KeyError")
    ELSE IF r.body = "empty" THEN Returned("")
    ELSE Returned(PanelToken)

get_cert(sent, r, json_caught) ==
    IF ~sent \/ r.net = "err" \/ RaiseForStatus(r) THEN Returned(NONE)
    ELSE IF r.body = "notjson"
         THEN IF json_caught THEN Returned(NONE) ELSE Raised("JSONDecodeError")
    ELSE IF r.body = "nofield" THEN Raised("KeyError")
    ELSE IF r.body = "empty" THEN Returned("")
    ELSE Returned(PanelCert)

curl_add_node_to_panel(service_port, api_port, sent, r) ==
    IF ~(IntOk(service_port) /\ IntOk(api_port)) THEN Raised("ValueError")
    ELSE IF ~sent \/ r.net = "err" \/ RaiseForStatus(r) THEN Returned(PyFalse)
    ELSE Returned(PyTrue)

\* ---------------------------------------------------------------- inputs
PanelDomains == {"panel.example"}
PanelPorts == {"443", "8000"}
PortTexts == {<<"62050", "62051">>, <<"abc", "62051">>, <<"62050", "">>}
SshPortPrompts == {"", "2222", "ssh"}

\* smart_api_handler.py: sys.argv[1..10]; argc is len(sys.argv).
ApiInputs ==
    {[argc |-> n, panel_domain |-> d, panel_port |-> p, https |-> h,
      service_port |-> PyS(t[1]), api_port |-> PyS(t[2]), server_port |-> "22"] :
        n \in {10, 11}, d \in PanelDomains, p \in PanelPorts, h \in BOOLEAN,
        t \in PortTexts}

\* `if len(sys.argv) < 11: ... sys.exit(1)`
UsageError == variant = "api" /\ in.argc < 11

\* A prompt whose empty answer keeps the default.
PromptDefault(answer, default) == IF answer = "" THEN default ELSE answer

\* smart_curlscript.py: the prompts; auto-assign takes the two defaults.
CurlInputs ==
    {[argc |-> 1, panel_domain |-> d, panel_port |-> p, https |-> h,
      service_port |-> t[1], api_port |-> t[2],
      server_port |-> PromptDefault(sp, "22")] :
        d \in PanelDomains, p \in PanelPorts, h \in BOOLEAN,
        t \in {<<PyI(DEFAULT_SERVICE_PORT), PyI(DEFAULT_API_PORT)>>}
               \cup {<<PyS(x[1]), PyS(x[2])>> : x \in PortTexts},
        sp \in SshPortPrompts}

FailKinds == {"auth", "conn", "cmd"}

StartRun(v, i, coop, co) ==
    /\ variant' = v
    /\ in' = i
    /\ panel_coop' = coop
    /\ checkout' = co
    /\ fresh' = ~co
    /\ pc' = "login"
    /\ token' = NONE
    /\ cert_content' = NONE
    /\ calls' = <<>>
    /\ oks' = {}
    /\ reqs' = <<>>
    /\ resp' = NoResp
    /\ ret' = NoRet
    /\ stdout' = <<>>
    /\ exit_code' = -1
    /\ client' = "none"
    /\ executed' = <<>>
    /\ statuses' = <<>>
    /\ ssh_ret' = NONE
    /\ ssh_fail' = "none"
    /\ ssh_log' = "none"

Init ==
    /\ variant \in {"api", "curl"}
    /\ in \in (IF variant = "api" THEN ApiInputs ELSE CurlInputs)
    /\ panel_coop \in BOOLEAN
    /\ checkout \in BOOLEAN
    /\ fresh = ~checkout
    /\ pc = "login"
    /\ token = NONE
    /\ cert_content = NONE
    /\ calls = <<>>
    /\ oks = {}
    /\ reqs = <<>>
    /\ resp = NoResp
    /\ ret = NoRet
    /\ stdout = <<>>
    /\ exit_code = -1
    /\ client = "none"
    /\ executed = <<>>
    /\ statuses = <<>>
    /\ ssh_ret = NONE
    /\ ssh_fail = "none"
    /\ ssh_log = "none"
    /\ observed = [k \in FailKinds |-> {}]
    /\ runs = 1

\* The operator runs the script again.
Rerun ==
    /\ pc = "exited"
    /\ runs < MaxRuns
    /\ runs' = runs + 1
    /\ observed' = observed
    /\ \E v \in {"api", "curl"}, coop \in BOOLEAN, co \in BOOLEAN :
         \E i \in (IF v = "api" THEN ApiInputs ELSE CurlInputs) :
            StartRun(v, i, coop, co)

\* ---------------------------------------------------------------- main: panel stages
\* The request went out only if requests accepted the URL.
Transport(ep, url, sent) == IF sent THEN PanelAnswers(ep, url) ELSE {NoResp}
Logged(ep, url, sent) == IF sent THEN Append(reqs, [ep |-> ep, url |-> url]) ELSE reqs

\* Variant: the process always reports success.
Exit_Zero(code) == pc' = "exited" /\ exit_code' = 0

\* sys.exit(code), or the interpreter ending on an uncaught exception (code 1).
Exit(code) == pc' = "exited" /\ exit_code' = code

\* Variant: main does not test the result of a stage.
StageFailed_NoCheck(res) == res.kind = "raise"

\* `if not <result>: sys.exit(1)`; an exception leaves main uncaught.
StageFailed(res) == res.kind = "raise" \/ Falsy(res.val)

\* The stage function returned its success value (a token, a certificate, True).
Succeeded(res) == res.kind = "return" /\ res.val \notin {NONE, "", PyFalse}
Record(stage, res) == IF Succeeded(res) THEN oks \cup {stage} ELSE oks

LoginUrl ==
    IF variant = "api"
    THEN ApiUrl(PyS(in.panel_domain), PyS(in.panel_port), PyB(in.https), "/api/admin/token")
    ELSE CurlUrl(in.panel_domain, in.panel_port, in.https, "/api/admin/token")

MainLogin ==
    /\ pc = "login"
    /\ IF UsageError
       THEN Exit(1) /\ UNCHANGED <<calls, reqs, resp, ret, oks, token>>
       ELSE LET url == LoginUrl
                sent == UrlValid(url)
            IN \E r \in Transport("login", url, sent), jc \in BOOLEAN :
                 LET res == IF variant = "api" THEN get_token(sent, r, jc)
                            ELSE get_access_token(sent, r, jc)
                 IN /\ calls' = Append(calls, "login")
                    /\ reqs' = Logged("login", url, sent)
                    /\ resp' = r
                    /\ ret' = res
                    /\ oks' = Record("login", res)
                    /\ IF StageFailed(res)
                       THEN Exit(1) /\ UNCHANGED token
                       ELSE /\ token' = res.val
                            /\ pc' = "cert"
                            /\ UNCHANGED exit_code
    /\ UNCHANGED <<cert_content, stdout>>
    /\ UNCHANGED run_vars
    /\ UNCHANGED ssh_vars

CertUrl ==
    IF variant = "api"
    THEN ApiUrl(PyS(in.panel_domain), PyS(in.panel_port), PyB(in.https),
                "/api/admin/nodes/certificate")
    ELSE CurlUrl(in.panel_domain, in.panel_port, in.https, "/api/node/settings")

\* print(x) writes x and a newline.
PrintTo(out, x) == out \o <<x, "\n">>

MainFetchCert ==
    /\ pc = "cert"
    /\ LET url == CertUrl
           sent == UrlValid(url)
       IN \E r \in Transport("cert", url, sent), jc \in BOOLEAN :
            LET res == IF variant = "api" THEN get_client_cert(sent, r, jc)
                       ELSE get_cert(sent, r, jc)
            IN /\ calls' = Append(calls, "cert")
               /\ reqs' = Logged("cert", url, sent)
               /\ resp' = r
               /\ ret' = res
               /\ oks' = Record("cert", res)
               /\ IF StageFailed(res)
                  THEN Exit(1) /\ UNCHANGED <<cert_content, stdout>>
                  ELSE /\ cert_content' = res.val
                       /\ stdout' = IF variant = "api" THEN PrintTo(stdout, res.val)
                                     ELSE stdout
                       /\ pc' = "register"
                       /\ UNCHANGED exit_code
    /\ UNCHANGED token
    /\ UNCHANGED run_vars
    /\ UNCHANGED ssh_vars

RegisterUrl ==
    IF variant = "api"
    THEN ApiUrl(PyS(in.panel_domain), PyS(in.panel_port), PyB(in.https), "/api/admin/nodes")
    ELSE CurlUrl(in.panel_domain, in.panel_port, in.https, "/api/node")

MainRegister ==
    /\ pc = "register"
    /\ LET url == RegisterUrl
           sent == IntOk(in.service_port) /\ IntOk(in.api_port) /\ UrlValid(url)
       IN \E r \in Transport("register", url, sent), jc \in BOOLEAN :
            LET res == IF variant = "api"
                       THEN api_add_node_to_panel(in.service_port, in.api_port, sent, r, jc)
                       ELSE curl_add_node_to_panel(in.service_port, in.api_port, sent, r)
            IN /\ calls' = Append(calls, "register")
               /\ reqs' = Logged("register", url, sent)
               /\ resp' = r
               /\ ret' = res
               /\ oks' = Record("register", res)
               /\ IF StageFailed(res)
                  THEN Exit(1)
                  ELSE IF variant = "api"
                       THEN Exit(0)
                       ELSE pc' = "ssh_connect" /\ UNCHANGED exit_code
    /\ UNCHANGED <<token, cert_content, stdout>>
    /\ UNCHANGED run_vars
    /\ UNCHANGED ssh_vars

\* ---------------------------------------------------------------- run_ssh_commands_on_node
ExitStatuses == {0, 1, -1}

\* Shell: `[ -d DIR ]` is 0 when DIR is a directory, 1 otherwise.
TestDir(exists) == IF exists THEN 0 ELSE 1
\* Shell: `A && B` runs B only when A exited 0; its status is that of the
\* last command run.
ShellAnd(a, b) == IF a # 0 THEN a ELSE b

\* Exit status of command i, given the status s of the program it runs.
\* commands[2] is `[ -d ~/Marzban-node ] && sudo rm -rf ~/Marzban-node`.
CommandStatus(i, exists, s) ==
    IF i = RemoveStep THEN ShellAnd(TestDir(exists), s) ELSE s

\* The directory after command i exited with status st.
CheckoutAfter(i, exists, st) ==
    IF i = RemoveStep /\ exists /\ st = 0 THEN FALSE
    ELSE IF i = CloneStep /\ st = 0 THEN TRUE
    ELSE exists

\* Variant: only a positive exit status counts as a failure.
CommandFailed_Positive(exit_status) == exit_status > 0

\* `if exit_status == 0: ... else: raise Exception(...)`
CommandFailed(exit_status) == exit_status # 0

\* The except branch that handles an exception, in the order written.
ExceptBranch(exc) ==
    IF exc = "AuthenticationException" THEN "auth_failed"
    ELSE IF exc = "SSHException" THEN "ssh_failed"
    ELSE "exec_error"

\* Every except branch returns False.
ExceptReturn(branch) == PyFalse

\* Variant: the client is not closed.
Finally_Leak(c) == c

\* `finally: client.close()`
Finally(c) == "closed"

\* `if not run_ssh_commands_on_node(...): sys.exit(1)`, else main runs to
\* its end.
MainAfterSsh(result) == IF Falsy(result) THEN Exit(1) ELSE Exit(0)

\* The function leaves through an except branch.
SshFails(exc, kind) ==
    /\ ssh_log' = ExceptBranch(exc)
    /\ ssh_ret' = ExceptReturn(ExceptBranch(exc))
    /\ ssh_fail' = kind
    /\ observed' = [observed EXCEPT ![kind] = @ \cup {ExceptReturn(ExceptBranch(exc))}]
    /\ client' = Finally(client)
    /\ ret' = Returned(ExceptReturn(ExceptBranch(exc)))
    /\ MainAfterSsh(ExceptReturn(ExceptBranch(exc)))

\* client.connect(server_ip, port=int(server_port), ...)
ConnectOutcomes ==
    {[exc |-> "none", kind |-> "none"],
     [exc |-> "AuthenticationException", kind |-> "auth"],
     [exc |-> "SSHException", kind |-> "conn"],
     [exc |-> "socket.error", kind |-> "conn"]}

SshConnect ==
    /\ pc = "ssh_connect"
    /\ calls' = Append(calls, "bootstrap")
    /\ IF ~IntOk(PyS(in.server_port))
       THEN /\ SshFails("ValueError", "conn")
            /\ UNCHANGED oks
       ELSE \E o \in ConnectOutcomes :
              IF o.exc = "none"
              THEN /\ client' = "open"
                   /\ pc' = "ssh_exec"
                   /\ UNCHANGED <<ssh_log, ssh_ret, ssh_fail, observed, ret, exit_code, oks>>
              ELSE /\ SshFails(o.exc, o.kind)
                   /\ UNCHANGED oks
    /\ UNCHANGED <<token, cert_content, reqs, resp, stdout, executed, statuses, checkout>>
    /\ UNCHANGED run_vars

\* One iteration of `for command in commands`.
SshExec ==
    /\ pc = "ssh_exec"
    /\ LET i == Len(executed) + 1
       IN \/ \E s \in ExitStatuses :
               LET st == CommandStatus(i, checkout, s)
               IN /\ executed' = Append(executed, i)
                  /\ statuses' = Append(statuses, st)
                  /\ checkout' = CheckoutAfter(i, checkout, st)
                  /\ IF CommandFailed(st)
                     THEN SshFails("Exception", "cmd") /\ UNCHANGED oks
                     ELSE IF i = NumCommands
                     THEN /\ client' = Finally(client)
                          /\ ssh_ret' = PyTrue
                          /\ ret' = Returned(PyTrue)
                          /\ oks' = oks \cup {"bootstrap"}
                          /\ MainAfterSsh(PyTrue)
                          /\ UNCHANGED <<ssh_log, ssh_fail, observed>>
                     ELSE UNCHANGED <<client, ssh_ret, ret, oks, ssh_log, ssh_fail,
                                      observed, pc, exit_code>>
          \/ \* client.exec_command raises: the session was lost
             /\ SshFails("SSHException", "conn")
             /\ UNCHANGED <<executed, statuses, checkout, oks>>
    /\ UNCHANGED <<token, cert_content, calls, reqs, resp, stdout>>
    /\ UNCHANGED run_vars

Next == MainLogin \/ MainFetchCert \/ MainRegister \/ SshConnect \/ SshExec \/ Rerun

Spec == Init /\ [][Next]_vars

\* ---------------------------------------------------------------- properties
StageOrder == <<"login", "cert", "register", "bootstrap">>
Last(q) == q[Len(q)]
IsCertificate(c) == c \notin {NONE, ""}
Sent(ep) == \E k \in 1..Len(reqs) : reqs[k].ep = ep
Called(stage) == \E k \in 1..Len(calls) : calls[k] = stage

\* C1: stages are called in the order login, fetch certificate, register,
\* bootstrap; the register request goes out only after the certificate was
\* returned, and a bootstrap command runs only after the certificate was
\* returned and the registration succeeded.
C1_StrictOrder ==
    /\ Len(calls) <= Len(StageOrder)
    /\ \A k \in 1..Len(calls) : calls[k] = StageOrder[k]
    /\ (Called("cert") \/ Sent("cert")) => "login" \in oks /\ token \notin {NONE, ""}
    /\ (Called("register") \/ Sent("register")) =>
          "cert" \in oks /\ IsCertificate(cert_content)
    /\ (Called("bootstrap") \/ client # "none" \/ executed # <<>>) =>
          /\ variant = "curl"
          /\ "cert" \in oks /\ IsCertificate(cert_content)
          /\ "register" \in oks

C1_Witness ==
    /\ Sent("register")
    /\ Len(executed) >= 1
    /\ calls = StageOrder

\* C2: the first command with a non-zero exit status is the last command
\* executed; the commands before it ran once each in list order, and the
\* function returns False.
C2_AbortAtFirstFailure ==
    /\ Len(executed) = Len(statuses)
    /\ Len(executed) <= NumCommands
    /\ \A k \in 1..Len(executed) : executed[k] = k
    /\ \A k \in 1..Len(statuses) :
          statuses[k] # 0 =>
            /\ k = Len(statuses)
            /\ ssh_ret = PyFalse
            /\ pc = "exited"

C2_Witness ==
    /\ Len(statuses) = 5
    /\ statuses[5] = -1
    /\ ssh_ret = PyFalse

\* C3: once run_ssh_commands_on_node has returned, on any path, the client
\* is closed; no run ends with a client that was created and not closed.
C3_SessionClosed ==
    /\ ssh_ret # NONE => client = "closed"
    /\ pc = "exited" => client \in {"none", "closed"}
    /\ client \in {"new", "open"} => pc = "ssh_exec"

C3_Witness ==
    /\ ssh_ret = PyFalse
    /\ ssh_log = "exec_error"
    /\ ~IntOk(PyS(in.server_port))
    /\ client = "closed"

\* C4: a stage that fails is the last stage called, the run has exited and
\* the exit code is not 0; after a failed panel stage no SSH client exists
\* and no bootstrap command ran.
StageHasFailed(stage) ==
    IF stage = "bootstrap" THEN ssh_ret = PyFalse
    ELSE Called(stage) /\ stage \notin oks

C4_HaltOnFailure ==
    \A k \in 1..Len(StageOrder) :
        StageHasFailed(StageOrder[k]) =>
            /\ pc = "exited"
            /\ exit_code >= 1
            /\ Last(calls) = StageOrder[k]
            /\ StageOrder[k] # "bootstrap" => client = "none" /\ executed = <<>>

C4_Witness ==
    /\ Called("register")
    /\ Last(calls) = "register"
    /\ resp.net = "ok" /\ resp.status = 500
    /\ exit_code = 1
    /\ client = "none"

\* C5: an api-variant run against a panel that accepts the login, returns
\* the certificate and accepts the registration ends with exactly the
\* certificate on stdout and exit code 0.
C5_CertOnStdout ==
    (/\ variant = "api"
     /\ ~UsageError
     /\ panel_coop
     /\ IntOk(in.service_port) /\ IntOk(in.api_port)
     /\ pc = "exited")
    => stdout = <<PanelCert>> /\ exit_code = 0

\* C6: add_node_to_panel returns True exactly when the response status is
\* 200 or 201, and returns False (a value, no exception) for every other
\* status.
C6_RegisterStatus ==
    (/\ calls # <<>>
     /\ Last(calls) = "register"
     /\ resp.net = "ok")
    => /\ ret.kind = "return"
       /\ ret.val = PyTrue <=> resp.status \in {200, 201}

\* C7: login returns a token only for HTTP 200 with the token field
\* present, and returns None (a value, no exception) for a network failure,
\* a non-2xx status, or a 2xx body without the access_token field.
C7_LoginOutcome ==
    (calls # <<>> /\ Last(calls) = "login")
    => /\ (ret.kind = "return" /\ ret.val \notin {NONE, ""}) =>
            resp.net = "ok" /\ resp.status = 200 /\ resp.body = "field"
       /\ (\/ resp.net # "ok"
           \/ resp.status < 200 \/ resp.status > 299
           \/ resp.body = "nofield") => ret = Returned(NONE)

\* C8: the values returned to the caller for two different failure kinds
\* (authentication, connection, command) are different.
C8_Distinguishable ==
    \A k1 \in FailKinds, k2 \in FailKinds :
        k1 # k2 => observed[k1] \cap observed[k2] = {}

\* The port text is not a valid integer.
NotAnInteger(v) == v.ty = "str" /\ v.s \notin IntLiterals

\* C9 (as claimed): when an invalid service or API port is rejected, no
\* HTTP request at all has been sent.
C9_NoRequestBeforeRejection ==
    (/\ calls # <<>>
     /\ Last(calls) = "register"
     /\ (NotAnInteger(in.service_port) \/ NotAnInteger(in.api_port))
     /\ ret = Raised("ValueError"))
    => reqs = <<>>

\* C9 (amended): with an invalid service or API port the register-node
\* request is never sent; add_node_to_panel raises ValueError before its own
\* request, when only login and fetch-certificate requests have gone out.
C9_NoRegisterRequest ==
    (NotAnInteger(in.service_port) \/ NotAnInteger(in.api_port)) =>
        /\ ~Sent("register")
        /\ Called("register") =>
              /\ ret = Raised("ValueError")
              /\ pc = "exited" /\ exit_code = 1
              /\ \A k \in 1..Len(reqs) : reqs[k].ep \in {"login", "cert"}

C9_Witness ==
    /\ NotAnInteger(in.service_port)
    /\ Called("register")
    /\ ret = Raised("ValueError")
    /\ Sent("login") /\ Sent("cert")

\* C10: on a host without a previous checkout, when every command other
\* than the remove-if-exists step exits 0, the sequence reaches the last
\* command and run_ssh_commands_on_node returns True.
C10_FreshHostSucceeds ==
    (/\ fresh
     /\ ssh_ret # NONE
     /\ ssh_fail \notin {"auth", "conn"}
     /\ \A k \in 1..Len(statuses) : k # RemoveStep => statuses[k] = 0)
    => /\ ssh_ret = PyTrue
       /\ Len(executed) = NumCommands

====
